---- MODULE Spec2Model ----
(***************************************************************************)
(* A model of templater (src/main.go, lines 1-507, the current version of  *)
(* the program): the path mapping (convertOutputPath), the change          *)
(* classification and the output gate of scan(), and main()'s dispatch     *)
(* between a scan and a single-file run.                                   *)
(*                                                                         *)
(* Strings are sequences of one-character strings, so that the path and    *)
(* string functions of the Go library are computed character by character. *)
(***************************************************************************)
EXTENDS Naturals, Sequences, FiniteSets

VARIABLES
  flags,    \* the parsed command line (type Flags)
  cwd,      \* os.Getwd()
  fs,       \* the file system: path -> file state
  fs0,      \* the file system when the current run started
  walk,     \* the names filepath.Walk read from the directory, sorted
  idx,      \* the next entry of walk to visit
  pc,       \* where the process is: "main", "scan", "path", "mapped", "back",
            \* "exit0", "exit1", "panic"
  trace,    \* one record per template visited by the current run
  stdout,   \* the status lines printed by the current run
  ops,      \* the file system calls of the current run that change something
  run,      \* the number of the current run (1, 2, ...)
  prev,     \* the trace of the previous run
  scanned,  \* path mapping: the template path last mapped
  mapped,   \* path mapping: the result of convertOutputPath
  back,     \* path mapping: the result of mapping the output back
  stdin     \* standard input of a single-file run: template text, answer

vars == <<flags, cwd, fs, fs0, walk, idx, pc, trace, stdout, ops, run, prev,
          scanned, mapped, back, stdin>>

----------------------------------------------------------------------------
(* Bounds of the model. *)

\* the most template files a scanned directory holds
MaxFiles == 2
\* the most runs of the same command in a row
MaxRuns == 2
\* the most directories below the root in a path that is mapped
MaxDepth == 2

----------------------------------------------------------------------------
(* Strings. *)

Empty == << >>

\* const extension = "tmpl"
extension == <<"t", "m", "p", "l">>

dotExtension == <<".">> \o extension

\* the byte value of a character, for sorting
Ord(c) ==
  CASE c = " " -> 32
    [] c = "." -> 46
    [] c = "/" -> 47
    [] c = "E" -> 69
    [] c = "N" -> 78
    [] c = "S" -> 83
    [] c = "Y" -> 89
    [] c = "a" -> 97
    [] c = "b" -> 98
    [] c = "e" -> 101
    [] c = "l" -> 108
    [] c = "m" -> 109
    [] c = "n" -> 110
    [] c = "p" -> 112
    [] c = "s" -> 115
    [] c = "t" -> 116
    [] c = "w" -> 119
    [] c = "y" -> 121
    [] OTHER -> 0

\* s < t as Go compares strings (sort.Strings in the directory walk)
RECURSIVE StrLess(_, _)
StrLess(s, t) ==
  IF t = Empty THEN FALSE
  ELSE IF s = Empty THEN TRUE
  ELSE IF Head(s) = Head(t) THEN StrLess(Tail(s), Tail(t))
  ELSE Ord(Head(s)) < Ord(Head(t))

\* strings.HasPrefix
HasPrefix(s, prefix) ==
  /\ Len(s) >= Len(prefix)
  /\ SubSeq(s, 1, Len(prefix)) = prefix

\* s[n:]
From(s, n) == SubSeq(s, n + 1, Len(s))

\* strings.Index: the 1-based place of the first occurrence of sub, 0 if none
Index(s, sub) ==
  LET hits == {i \in 1..(Len(s) + 1) :
                 /\ i + Len(sub) - 1 <= Len(s)
                 /\ SubSeq(s, i, i + Len(sub) - 1) = sub}
  IN IF hits = {} THEN 0 ELSE CHOOSE i \in hits : \A j \in hits : i <= j

\* the place of the last "/" of s, 0 if none
LastSlash(s) ==
  LET hits == {i \in 1..Len(s) : s[i] = "/"}
  IN IF hits = {} THEN 0 ELSE CHOOSE i \in hits : \A j \in hits : i >= j

\* strings.Replace(s, old, "", 1)
RemoveFirst(s, old) ==
  LET i == Index(s, old)
  IN IF i = 0 THEN s
     ELSE SubSeq(s, 1, i - 1) \o From(s, i + Len(old) - 1)

\* the elements of a path between its slashes, empty ones included
RECURSIVE Elements(_)
Elements(s) ==
  LET i == Index(s, <<"/">>)
  IN IF i = 0 THEN <<s>>
     ELSE <<SubSeq(s, 1, i - 1)>> \o Elements(From(s, i))

RECURSIVE JoinSlash(_)
JoinSlash(elems) ==
  IF elems = << >> THEN Empty
  ELSE IF Len(elems) = 1 THEN elems[1]
  ELSE elems[1] \o <<"/">> \o JoinSlash(Tail(elems))

\* path.Clean's pass over the elements: "" and "." are dropped, ".." drops
\* the element before it, is dropped at the root, and is kept at the start
\* of a relative path
RECURSIVE CleanElements(_, _, _)
CleanElements(elems, acc, rooted) ==
  IF elems = << >> THEN acc
  ELSE LET e == Head(elems)
           rest == Tail(elems)
       IN IF e = Empty \/ e = <<".">> THEN CleanElements(rest, acc, rooted)
          ELSE IF e = <<".", ".">>
               THEN IF acc # << >> /\ acc[Len(acc)] # <<".", ".">>
                    THEN CleanElements(rest, SubSeq(acc, 1, Len(acc) - 1), rooted)
                    ELSE IF rooted THEN CleanElements(rest, acc, rooted)
                    ELSE CleanElements(rest, Append(acc, e), rooted)
          ELSE CleanElements(rest, Append(acc, e), rooted)

\* path.IsAbs
IsAbs(p) == Len(p) > 0 /\ p[1] = "/"

\* path.Clean
Clean(p) ==
  IF p = Empty THEN <<".">>
  ELSE LET rooted == IsAbs(p)
           body == JoinSlash(CleanElements(Elements(p), << >>, rooted))
       IN IF rooted THEN <<"/">> \o body
          ELSE IF body = Empty THEN <<".">> ELSE body

\* path.Dir: the path up to and with its last slash, cleaned
Dir(p) == Clean(SubSeq(p, 1, LastSlash(p)))

RECURSIVE TrimSlashes(_)
TrimSlashes(p) ==
  IF Len(p) > 0 /\ p[Len(p)] = "/" THEN TrimSlashes(SubSeq(p, 1, Len(p) - 1))
  ELSE p

\* path.Base
Base(p) ==
  IF p = Empty THEN <<".">>
  ELSE LET t == TrimSlashes(p)
           b == From(t, LastSlash(t))
       IN IF b = Empty THEN <<"/">> ELSE b

\* path.Join of two elements: empty elements are ignored, the rest is cleaned
Join(a, b) ==
  IF a = Empty /\ b = Empty THEN Empty
  ELSE IF a = Empty THEN Clean(b)
  ELSE IF b = Empty THEN Clean(a)
  ELSE Clean(a \o <<"/">> \o b)

\* filepath.Abs with the working directory wd
Abs(wd, p) == IF IsAbs(p) THEN Clean(p) ELSE Join(wd, p)

\* templRegEx: "^.*(\.tmpl)(\.|$)"
templRegExMatch(name) ==
  \E i \in 1..Len(name) :
    /\ i + Len(dotExtension) - 1 <= Len(name)
    /\ SubSeq(name, i, i + Len(dotExtension) - 1) = dotExtension
    /\ \/ i + Len(dotExtension) - 1 = Len(name)
       \/ name[i + Len(dotExtension)] = "."

\* func stripTempl
stripTempl(base) == RemoveFirst(base, dotExtension)

----------------------------------------------------------------------------
(* The path mapping. *)

\* Flags.origParentAbs
origParentAbs(f, wd) == Abs(wd, f.origParent)

\* Flags.newParentAbs
newParentAbs(f, wd) == Abs(wd, f.newParent)

Fatal == [fatal |-> TRUE, path |-> Empty]

\* no path mapped yet
NoPath == [fatal |-> FALSE, path |-> <<"?">>]

\* in the place of a path of the walk: the walk function is called with a
\* nil os.FileInfo, and info.IsDir() (line 66) panics
Fault == <<"!">>

\* nothing of standard input is read
NoInput == [src |-> "", text |-> <<"-">>]

\* no file system: the path mapping reads none
NoFs == [p \in {} |-> 0]

Path(p) == [fatal |-> FALSE, path |-> p]

\* convertPrefix without the check of line 265: a template that is not
\* under the original prefix is rendered in place
convertPrefix_InPlace(origParent, newParent, inputDir, inputBase) ==
  IF origParent # Empty /\ newParent # Empty /\ HasPrefix(inputDir, origParent)
  THEN Path(Join(IF Len(origParent) = Len(inputDir) THEN newParent
                 ELSE newParent \o From(inputDir, Len(origParent)),
                 stripTempl(inputBase)))
  ELSE Path(Join(inputDir, stripTempl(inputBase)))

\* func convertOutputPath, lines 262-280: the output path, or log.Fatalf
convertPrefix(origParent, newParent, inputDir, inputBase) ==
  LET canConvertDir == origParent # Empty /\ newParent # Empty
      outputDir ==
        IF canConvertDir
        THEN IF Len(origParent) = Len(inputDir) THEN newParent
             ELSE newParent \o From(inputDir, Len(origParent))
        ELSE inputDir
  IN IF canConvertDir /\ ~HasPrefix(inputDir, origParent) THEN Fatal
     ELSE Path(Join(outputDir, stripTempl(inputBase)))

\* func convertOutputPath, lines 256-260, for a path that is not empty
convertDir(f, wd, scannedPath) ==
  convertPrefix(origParentAbs(f, wd), newParentAbs(f, wd),
                Dir(Clean(scannedPath)), Base(Clean(scannedPath)))

\* func convertOutputPath
convertOutputPath(f, wd, scannedPath) ==
  IF scannedPath = Empty
  THEN IF f.in = Empty THEN Path(Empty)
       ELSE convertDir(f, wd, Abs(wd, f.in))
  ELSE convertDir(f, wd, scannedPath)

----------------------------------------------------------------------------
(* The command line. *)

\* Flags.shouldScan
shouldScan(f) == f.scan /\ f.in = Empty /\ f.out = Empty

\* Flags.shouldDryRun
shouldDryRun(f) == f.dryRun

\* Flags.isStdin
isStdin(f) == f.in = Empty /\ ~f.scan

\* Flags.shouldPromptBeforeWrite
shouldPromptBeforeWrite(f) == f.interactive /\ ~isStdin(f)

\* the same command line with -orig and -new exchanged
Swapped(f) ==
  [f EXCEPT !.origParent = f.newParent, !.newParent = f.origParent]

----------------------------------------------------------------------------
(* Files, rendering and the change classification. *)

Absent == [kind |-> "absent", data |-> "", perm |-> "-"]

\* a regular file: its bytes, and "rw" (0644), "ro" (0444) or "none" (0000)
File(d, m) == [kind |-> "file", data |-> d, perm |-> m]

Directory(m) == [kind |-> "dir", data |-> "", perm |-> m]

\* the state of a path
At(fsys, p) == IF p \in DOMAIN fsys THEN fsys[p] ELSE Absent

\* os.Open followed by a read of the whole file succeeds
Readable(file) == file.kind = "file" /\ file.perm \in {"rw", "ro"}

\* os.Stat succeeds
Exists(file) == file.kind # "absent"

\* a directory in which entries can be made and removed
Writable(fsys, d) == At(fsys, d).kind = "dir" /\ At(fsys, d).perm = "rw"

\* the template sources: a substitution, a conditional that renders nothing,
\* and a template that does not parse; any other text is rendered as it is
SrcHello == "Hello {{.User}}"

SrcNothing == "{{if .InDocker}}x{{end}}"

SrcBroken == "Hello {{"

\* text/template's Parse and Execute with the configuration of the run
\* (-override-user bob, InDocker: false): the text written, or an error
Render(src) ==
  CASE src = SrcHello -> [err |-> FALSE, data |-> "Hello bob"]
    [] src = SrcNothing -> [err |-> FALSE, data |-> ""]
    [] src = SrcBroken -> [err |-> TRUE, data |-> ""]
    [] OTHER -> [err |-> FALSE, data |-> src]

\* func executeTemplate on an opened file and a bytes.Buffer: ioutil.ReadAll,
\* t.Parse, templ.Execute. Buffer.Bytes() of a buffer nothing was written to
\* is a nil slice.
executeTemplate(file) ==
  IF file.kind # "file" THEN [err |-> TRUE, bytes |-> [nil |-> TRUE, data |-> ""]]
  ELSE LET r == Render(file.data)
       IN [err |-> r.err, bytes |-> [nil |-> r.data = "", data |-> r.data]]

\* Flags.getExistingOutputFileContents: os.Open, io.Copy into a new buffer.
\* Buffer.ReadFrom allocates before it reads, so Bytes() is never nil here.
getExistingOutputFileContents(fsys, outputPath) ==
  LET file == At(fsys, outputPath)
  IN IF Readable(file)
     THEN [err |-> FALSE, notExist |-> FALSE,
           bytes |-> [nil |-> FALSE, data |-> file.data]]
     ELSE [err |-> TRUE, notExist |-> ~Exists(file),
           bytes |-> [nil |-> TRUE, data |-> ""]]

\* reflect.DeepEqual on two []byte: a nil slice and an empty slice that is
\* not nil are not deeply equal
DeepEqual(x, y) == x.nil = y.nil /\ x.data = y.data

\* scan, lines 84-104: the mode of a template that was opened
\* Classify when the error of executeTemplate (line 87) is not looked at
Classify_Unchecked(rendered, existing) ==
  IF existing.err THEN "CREATE"
  ELSE IF ~DeepEqual(rendered.bytes, existing.bytes) THEN "MODIFY"
  ELSE "KEEP"

Classify(rendered, existing) ==
  IF rendered.err THEN "FAIL"
  ELSE IF existing.err THEN "CREATE"
  ELSE IF ~DeepEqual(rendered.bytes, existing.bytes) THEN "MODIFY"
  ELSE "KEEP"

----------------------------------------------------------------------------
(* The output gate. *)

IsSpace(c) == c \in {" ", "\n", "\t"}

\* strings.TrimSpace
RECURSIVE TrimSpace(_)
TrimSpace(s) ==
  IF s = Empty THEN s
  ELSE IF IsSpace(Head(s)) THEN TrimSpace(Tail(s))
  ELSE IF IsSpace(s[Len(s)]) THEN TrimSpace(SubSeq(s, 1, Len(s) - 1))
  ELSE s

Lower(c) ==
  CASE c = "Y" -> "y"
    [] c = "E" -> "e"
    [] c = "S" -> "s"
    [] c = "N" -> "n"
    [] OTHER -> c

\* strings.EqualFold
EqualFold(s, t) ==
  /\ Len(s) = Len(t)
  /\ \A i \in 1..Len(s) : Lower(s[i]) = Lower(t[i])

\* saysYes comparing with == instead of strings.EqualFold
saysYes_Exact(text) ==
  TrimSpace(text) \in {<<"y">>, <<"y", "e", "s">>}

\* promptAndCreateOutputFile, lines 318-320: the line read is a yes
saysYes(text) ==
  \/ EqualFold(TrimSpace(text), <<"y">>)
  \/ EqualFold(TrimSpace(text), <<"y", "e", "s">>)

\* what the user may type at the prompt (nothing at all: end of input)
Answers ==
  { <<"y", "\n">>,
    <<" ", "Y", "e", "S", " ", "\n">>,
    <<"n", "\n">>,
    <<"y", "e", "\n">>,
    Empty }

NoAnswer == <<"-">>

\* func createOutputFile on the file cur at the path, in a directory that is
\* writable or not: os.Remove, os.Create
removeAndCreate(outputPath, cur, dirw) ==
  LET removed == cur.kind = "file" /\ dirw
      left == IF removed THEN Absent ELSE cur
      ok == IF left.kind = "absent" THEN dirw
            ELSE left.kind = "file" /\ left.perm = "rw"
  IN [ok |-> ok,
      file |-> IF ~ok THEN left
               ELSE IF left.kind = "absent" THEN File("", "rw")
               ELSE File("", left.perm),
      ops |-> (IF removed THEN {<<"remove", outputPath>>} ELSE {})
              \cup (IF ok THEN {<<"create", outputPath>>} ELSE {})]

\* func createOutputFile: os.Remove, os.MkdirAll of the directory (which
\* exists: it is the one the template or the earlier output is in),
\* os.Create. Removing and creating an entry needs a writable directory;
\* truncating an existing file needs a writable file.
createOutputFile(fsys, outputPath) ==
  removeAndCreate(outputPath, At(fsys, outputPath),
                  Writable(fsys, Dir(outputPath)))

\* the writers promptAndCreateOutputFile returns: ioutil.Discard, the
\* created file, or none with an error (skipReplace or the error of
\* createOutputFile)
Gate(to, err, file, ops_, prompted) ==
  [to |-> to, err |-> err, file |-> file, ops |-> ops_, prompted |-> prompted]

\* func promptAndCreateOutputFile, on the file cur that is at the path and
\* the result c of createOutputFile, should it be called
promptAndCreate(f, cur, c, text) ==
  IF shouldDryRun(f) THEN Gate("discard", "nil", cur, {}, FALSE)
  ELSE IF shouldPromptBeforeWrite(f) /\ Exists(cur) /\ ~saysYes(text)
  THEN Gate("none", "skipReplace", cur, {}, TRUE)
  ELSE Gate(IF c.ok THEN "file" ELSE "none", IF c.ok THEN "nil" ELSE "error",
            c.file, c.ops, shouldPromptBeforeWrite(f) /\ Exists(cur))

\* func promptAndCreateOutputFile (Flags.outputWriter of a path that is not
\* empty)
promptAndCreateOutputFile(f, fsys, outputPath, text) ==
  promptAndCreate(f, At(fsys, outputPath),
                  createOutputFile(fsys, outputPath), text)

\* func markFileReadOnly: os.Chmod(outputPath, 0444)
markFileReadOnly(file) ==
  IF Exists(file) THEN [file EXCEPT !.perm = "ro"] ELSE file

----------------------------------------------------------------------------
(* The scan. *)

Entry(src, dst, tmpl, result, decision, mode, pre, post, work) ==
  [src |-> src, dst |-> dst, tmpl |-> tmpl, result |-> result,
   decision |-> decision, mode |-> mode, pre |-> pre, post |-> post,
   prompted |-> work.prompted, answer |-> work.answer,
   copyFailed |-> work.copyFailed, ops |-> work.ops]

NoWork == [prompted |-> FALSE, answer |-> NoAnswer, copyFailed |-> FALSE,
           ops |-> {}]

\* printStatus when the early returns of lines 112 and 115 are missing
printStatus_Always(result, mode, scannedPath, outputPath) ==
  IF result = "openfail" THEN << >>
  ELSE <<[mode |-> mode, src |-> scannedPath, dst |-> outputPath]>>

\* scan, lines 106-145: the status line of a visit. A visit that returns
\* early (the file cannot be opened, the user declines, the output cannot be
\* created) prints no status line.
printStatus(result, mode, scannedPath, outputPath) ==
  IF result = "reported"
  THEN <<[mode |-> mode, src |-> scannedPath, dst |-> outputPath]>>
  ELSE << >>

\* scan, lines 106-129: the write of a template whose mode is MODIFY or
\* CREATE, through the writer g that promptAndCreateOutputFile returned
scanWrite(f, fsys, scannedPath, outputPath, text, tmpl, pre, rendered, decision, g, failed) ==
  LET \* io.Copy(w, b): all the bytes, or an error after none of them
      copied == IF g.to = "file" /\ ~failed
                THEN [g.file EXCEPT !.data = rendered.bytes.data]
                ELSE g.file
      post == IF g.err # "nil" THEN g.file
              ELSE IF f.readOnly THEN markFileReadOnly(copied)
              ELSE copied
      result == IF g.err = "skipReplace" THEN "declined"
                ELSE IF g.err = "error" THEN "createfail"
                ELSE "reported"
      mode == IF g.err = "nil" /\ failed THEN "FAIL" ELSE decision
      work == [prompted |-> g.prompted,
               answer |-> IF g.prompted THEN text ELSE NoAnswer,
               copyFailed |-> g.err = "nil" /\ failed,
               ops |-> g.ops
                       \cup (IF g.to = "file"
                             THEN {<<"write", outputPath>>} ELSE {})
                       \cup (IF g.err = "nil" /\ f.readOnly /\ Exists(post)
                             THEN {<<"chmod", outputPath>>} ELSE {})]
  IN [fs |-> IF outputPath \in DOMAIN fsys
             THEN [fsys EXCEPT ![outputPath] = post] ELSE fsys,
      lines |-> printStatus(result, mode, scannedPath, outputPath),
      entry |-> Entry(scannedPath, outputPath, tmpl, result, decision, mode,
                      pre, post, work)]

\* scan, lines 78-105: the file is opened, rendered and classified
scanClassify(f, fsys, scannedPath, outputPath, text, copyFails, tmpl, pre, rendered, decision, g) ==
  IF ~Readable(tmpl) /\ tmpl.kind # "dir"
  THEN \* os.Open failed: logged, skipped
       [fs |-> fsys, lines |-> << >>,
        entry |-> Entry(scannedPath, outputPath, tmpl, "openfail", "NONE",
                        "NONE", pre, pre, NoWork)]
  ELSE IF decision \in {"FAIL", "KEEP"}
  THEN [fs |-> fsys,
        lines |-> printStatus("reported", decision, scannedPath, outputPath),
        entry |-> Entry(scannedPath, outputPath, tmpl, "reported", decision,
                        decision, pre, pre, NoWork)]
  ELSE scanWrite(f, fsys, scannedPath, outputPath, text, tmpl, pre, rendered,
                 decision, g, g.to = "file" /\ copyFails)

scanRender(f, fsys, scannedPath, outputPath, text, copyFails, tmpl, pre, rendered, existing) ==
  scanClassify(f, fsys, scannedPath, outputPath, text, copyFails, tmpl, pre,
               rendered, Classify(rendered, existing),
               promptAndCreateOutputFile(f, fsys, outputPath, text))

\* the body of the walk function of scan, lines 69-145, for a matching file
\* whose output path is outputPath: the file system it leaves, the record
\* of what happened, and the status lines printed
Visit(f, fsys, scannedPath, outputPath, text, copyFails) ==
  scanRender(f, fsys, scannedPath, outputPath, text, copyFails,
             At(fsys, scannedPath), At(fsys, outputPath),
             executeTemplate(At(fsys, scannedPath)),
             getExistingOutputFileContents(fsys, outputPath))

\* the working directory of the scans
WorkDir == <<"/", "w">>

\* the template files a scanned directory may hold: the outputs are
\* /w/a, /w/a.b and /w/a.b
ScanNames ==
  { <<"a">> \o dotExtension,
    <<"a", ".", "b">> \o dotExtension,
    <<"a">> \o dotExtension \o <<".", "b">> }

\* what a template file may be at the start: one of the three sources, or a
\* file that cannot be opened
TemplStates ==
  { File(SrcHello, "rw"), File(SrcNothing, "rw"), File(SrcBroken, "rw"),
    File(SrcHello, "none") }

\* what an output path may be at the start
TargetStates ==
  { Absent, File("Hello bob", "rw"), File("", "rw"), File("Hello bob", "none") }

\* the prefix flags of a scan, when given: a pair whose original prefix the
\* working directory is not under
ScanPrefixes == { <<(<<"/", "x">>), (<<"/", "n">>)>> }

TemplPath(n) == Join(WorkDir, n)

TargetPath(n) == Join(WorkDir, stripTempl(n))

FsPaths ==
  {WorkDir} \cup {TemplPath(n) : n \in ScanNames}
            \cup {TargetPath(n) : n \in ScanNames}

\* the directory trees of the model: at most MaxFiles templates, and a
\* state for each of their outputs
Trees ==
  UNION { UNION { { [p \in FsPaths |->
                      IF p = WorkDir THEN Directory(dw)
                      ELSE IF \E n \in T : p = TemplPath(n)
                           THEN tm[CHOOSE n \in T : p = TemplPath(n)]
                      ELSE IF p \in DOMAIN tg THEN tg[p]
                      ELSE Absent] :
                    tm \in [T -> TemplStates],
                    tg \in [{TargetPath(n) : n \in T} -> TargetStates] } :
                  dw \in {"rw", "ro"} } :
          T \in {X \in SUBSET ScanNames : Cardinality(X) <= MaxFiles} }

RECURSIVE SortPaths(_)
SortPaths(S) ==
  IF S = {} THEN << >>
  ELSE LET m == CHOOSE x \in S : \A y \in S \ {x} : StrLess(x, y)
       IN <<m>> \o SortPaths(S \ {m})

\* filepath.Walk(cwd, ...), lines 64-69: the entries of the directory, in
\* the order of their names, that templRegEx matches
WalkOf(fsys, wd) ==
  SortPaths({p \in DOMAIN fsys :
               /\ p # wd
               /\ Dir(p) = wd
               /\ Exists(fsys[p])
               /\ templRegExMatch(Base(p))})

ScanFlags(dry, inter, ro, pre) ==
  [scan |-> TRUE, porcelain |-> FALSE, dryRun |-> dry, interactive |-> inter,
   readOnly |-> ro, out |-> Empty, in |-> Empty, origParent |-> pre[1],
   newParent |-> pre[2]]

InitScan(dries, inters, prefixes) ==
  /\ flags \in {ScanFlags(d, i, r, <<Empty, Empty>>) :
                  d \in dries, i \in inters, r \in BOOLEAN}
               \cup {ScanFlags(FALSE, FALSE, FALSE, x) : x \in prefixes}
  /\ cwd = WorkDir
  /\ fs \in Trees
  /\ fs0 = fs
  /\ walk = WalkOf(fs, cwd)
  /\ idx = 1
  /\ pc = "scan"
  /\ trace = << >>
  /\ stdout = << >>
  /\ ops = {}
  /\ run = 1
  /\ prev = << >>
  /\ scanned = Empty
  /\ mapped = NoPath
  /\ back = NoPath
  /\ stdin = NoInput

\* main, lines 471-472, with -scan and neither -in nor -out
Init == InitScan(BOOLEAN, BOOLEAN, ScanPrefixes)

\* scan, line 76: convertOutputPath ends the process (log.Fatalf)
ScanFatal ==
  /\ pc = "scan"
  /\ idx <= Len(walk)
  /\ convertOutputPath(flags, cwd, walk[idx]).fatal
  /\ pc' = "exit1"
  /\ UNCHANGED <<stdin, flags, cwd, fs, fs0, walk, idx, trace, stdout, ops, run,
                 prev, scanned, mapped, back>>

\* the walk function has run on the next file and left v, having read text
\* at the prompt (if it prompted) and having had its write fail or not (if
\* it wrote)
Visited(v, text, copyFails) ==
  /\ text = v.entry.answer
  /\ v.entry.prompted => text \in Answers
  /\ copyFails => v.entry.copyFailed
  /\ fs' = v.fs
  /\ trace' = Append(trace, v.entry)
  /\ stdout' = stdout \o v.lines
  /\ ops' = ops \cup v.entry.ops
  /\ idx' = idx + 1
  /\ UNCHANGED <<stdin, flags, cwd, fs0, walk, pc, run, prev, scanned, mapped, back>>

ScanPath(o) ==
  /\ ~o.fatal
  /\ \E text \in Answers \cup {NoAnswer}, copyFails \in BOOLEAN :
       Visited(Visit(flags, fs, walk[idx], o.path, text, copyFails),
               text, copyFails)

\* scan, lines 69-146: the walk function on the next matching file
ScanFile ==
  /\ pc = "scan"
  /\ idx <= Len(walk)
  /\ walk[idx] # Fault
  /\ ScanPath(convertOutputPath(flags, cwd, walk[idx]))

\* scan, lines 147-152, and main's return: the walk is over
ScanDone ==
  /\ pc = "scan"
  /\ idx > Len(walk)
  /\ pc' = "exit0"
  /\ UNCHANGED <<stdin, flags, cwd, fs, fs0, walk, idx, trace, stdout, ops, run,
                 prev, scanned, mapped, back>>

Next == ScanFatal \/ ScanFile \/ ScanDone

Spec == Init /\ [][Next]_vars

\* the same command run again in the same directory
Rerun ==
  /\ pc = "exit0"
  /\ run < MaxRuns
  /\ run' = run + 1
  /\ prev' = trace
  /\ fs0' = fs
  /\ walk' = WalkOf(fs, cwd)
  /\ idx' = 1
  /\ pc' = "scan"
  /\ trace' = << >>
  /\ stdout' = << >>
  /\ ops' = {}
  /\ UNCHANGED <<stdin, flags, cwd, fs, scanned, mapped, back>>

\* a scan that is neither a dry run nor interactive, and its repetitions
InitRerun == InitScan({FALSE}, {FALSE}, {})

NextRerun == ScanFile \/ ScanDone \/ Rerun

SpecRerun == InitRerun /\ [][NextRerun]_vars

----------------------------------------------------------------------------
(* The path mapping as a state machine: one call of convertOutputPath on a  *)
(* template found by a scan or named by -in, then a second call on the      *)
(* output path with the two prefixes swapped.                               *)

\* the names of directories
Comps == {<<"a">>, <<"a", "b">>}

RECURSIVE DirsUpTo(_)
DirsUpTo(n) ==
  IF n = 0 THEN {<<"/">>}
  ELSE DirsUpTo(n - 1) \cup {Join(d, c) : d \in DirsUpTo(n - 1), c \in Comps}

Dirs == DirsUpTo(MaxDepth)

\* file names that templRegEx matches
TemplNames ==
  { <<"a">> \o dotExtension,
    <<"a">> \o dotExtension \o dotExtension,
    <<"a">> \o dotExtension \o <<".", "b">>,
    dotExtension }

\* the values of -orig and -new: none, absolute, relative, not clean
PrefixFlags == {Empty} \cup Dirs \cup {<<"a">>, <<"/", "a", "/">>}

\* the values of -in
InFlags ==
  { Empty,
    <<"/", "a", "/", "a">> \o dotExtension,
    <<"/", "a", "b", "/", "a">> \o dotExtension,
    <<"a", "/", "a">> \o dotExtension \o dotExtension,
    <<"a">> \o dotExtension }

Cwds == {<<"/">>, <<"/", "a">>}

\* d is wd or a directory below it
Under(wd, d) ==
  \/ d = wd
  \/ HasPrefix(d, IF wd = <<"/">> THEN wd ELSE wd \o <<"/">>)

InitPath ==
  /\ flags \in [scan : BOOLEAN, porcelain : {FALSE}, dryRun : {FALSE},
                interactive : {FALSE}, readOnly : {FALSE}, out : {Empty},
                in : InFlags, origParent : PrefixFlags,
                newParent : PrefixFlags]
  /\ cwd \in Cwds
  /\ pc = "path"
  /\ scanned = Empty
  /\ mapped = NoPath
  /\ back = NoPath
  /\ stdin = NoInput
  /\ fs = NoFs
  /\ fs0 = NoFs
  /\ walk = << >>
  /\ idx = 1
  /\ trace = << >>
  /\ stdout = << >>
  /\ ops = {}
  /\ run = 1
  /\ prev = << >>

\* scan, line 76: the walk hands over the absolute path of a matching file
\* below the working directory
MapScanned ==
  /\ pc = "path"
  /\ shouldScan(flags)
  /\ \E d \in {x \in Dirs : Under(cwd, x)}, n \in TemplNames :
       LET p == Join(d, n)
           r == convertOutputPath(flags, cwd, p)
       IN /\ scanned' = p
          /\ mapped' = r
          /\ pc' = IF r.fatal THEN "exit1" ELSE "mapped"
  /\ UNCHANGED <<stdin, flags, cwd, fs, fs0, walk, idx, trace, stdout, ops, run,
                 prev, back>>

\* Flags.getOutputPathForNonScan, line 380: a single-file run without -out
MapIn ==
  /\ pc = "path"
  /\ ~shouldScan(flags)
  /\ flags.out = Empty
  /\ LET r == convertOutputPath(flags, cwd, Empty)
     IN /\ scanned' = IF flags.in = Empty THEN Empty ELSE Abs(cwd, flags.in)
        /\ mapped' = r
        /\ pc' = IF r.fatal THEN "exit1" ELSE "mapped"
  /\ UNCHANGED <<stdin, flags, cwd, fs, fs0, walk, idx, trace, stdout, ops, run,
                 prev, back>>

\* the output path mapped again with the prefixes swapped
MapBack ==
  /\ pc = "mapped"
  /\ mapped.path # Empty
  /\ back' = convertOutputPath(Swapped(flags), cwd, mapped.path)
  /\ pc' = "back"
  /\ UNCHANGED <<stdin, flags, cwd, fs, fs0, walk, idx, trace, stdout, ops, run,
                 prev, scanned, mapped>>

NextPath == MapScanned \/ MapIn \/ MapBack

SpecPath == InitPath /\ [][NextPath]_vars

\* dir(p)/stripped-name: the template's own directory and its name without
\* the first ".tmpl"
InPlace(p) == Join(Dir(p), stripTempl(Base(p)))

\* the prefix rewrite is not fully configured on the command line
PrefixAbsent == flags.origParent = Empty \/ flags.newParent = Empty

\* a template path has been mapped (or the mapping has aborted the process)
Mapped == pc \in {"mapped", "exit1", "back"} /\ scanned # Empty

\* C5: when -orig, -new or both are empty, the output path of a template is
\* its own directory joined with its name without the first ".tmpl", in a
\* scan and in a single-file run with -in, whatever the working directory.
C5_InPlaceWithoutPrefix ==
  (Mapped /\ PrefixAbsent) => mapped = Path(InPlace(scanned))

\* C6: the case: both prefixes are supplied and the template's directory
\* does not start with the original prefix (resolved, as the code compares it)
PrefixMismatch ==
  /\ Mapped
  /\ flags.origParent # Empty
  /\ flags.newParent # Empty
  /\ ~HasPrefix(Dir(scanned), origParentAbs(flags, cwd))

\* C6: when both prefixes are supplied and the template's directory does not
\* start with the original prefix, the mapping aborts the process: it yields
\* no output path, in place or otherwise, and the process does not go on.
C6_PrefixMismatchIsFatal ==
  PrefixMismatch => (pc = "exit1" /\ mapped = Fatal)

C6_Witness == PrefixMismatch /\ pc = "exit1" /\ flags.scan

\* C7: the case: the original prefix is a non-empty strict prefix of the
\* template's directory, and a new prefix is supplied
StrictPrefix ==
  /\ scanned # Empty
  /\ flags.origParent # Empty
  /\ flags.newParent # Empty
  /\ HasPrefix(Dir(scanned), origParentAbs(flags, cwd))
  /\ origParentAbs(flags, cwd) # Dir(scanned)

\* C7: the prefix rewrite round-trips: the output directory is the new
\* prefix followed by what the original prefix left of the template's
\* directory, and mapping the output path with the prefixes swapped gives
\* the template's directory back.
C7_PrefixRoundTrip ==
  (pc = "back" /\ StrictPrefix) =>
     /\ Clean(Dir(mapped.path)) =
          Clean(newParentAbs(flags, cwd)
                \o From(Dir(scanned), Len(origParentAbs(flags, cwd))))
     /\ ~back.fatal
     /\ Dir(back.path) = Dir(scanned)

----------------------------------------------------------------------------
(* main: the dispatch between a scan and a single-file run. *)

\* the path a single-file run names with -in or -out, as the system opens it
Opened(wd, p) == Abs(wd, p)

Outcome(exit, fsys, out, source, prompted) ==
  [exit |-> exit, fs |-> fsys, out |-> out, source |-> source,
   prompted |-> prompted]

\* main, lines 486-505, with the writer g: the dry run's message, then
\* executeTemplate(r, w) straight into the writer
mainExecute(f, fsys, outputPath, source, rendered, g) ==
  LET put(file) == IF outputPath \in DOMAIN fsys
                   THEN [fsys EXCEPT ![outputPath] = file] ELSE fsys
      written == IF g.to = "file" THEN put([g.file EXCEPT !.data = rendered.data])
                 ELSE put(g.file)
      will == IF shouldDryRun(f) THEN <<"Will read and write">> ELSE << >>
      text == IF g.to = "stdout" /\ rendered.data # "" THEN <<rendered.data>>
              ELSE << >>
  IN IF g.err # "nil"
     THEN \* "Failed to create file": log.Fatalf, also for skipReplace
          Outcome("exit1", put(g.file), << >>, source, g.prompted)
     ELSE IF shouldDryRun(f) /\ ~IsAbs(outputPath)
     THEN \* nicePath: filepath.Rel fails on a path that is not absolute
          Outcome("panic", put(g.file), << >>, source, g.prompted)
     ELSE IF shouldDryRun(f) /\ isStdin(f)
     THEN Outcome("exit0", put(g.file), will, source, g.prompted)
     ELSE IF rendered.err
     THEN Outcome("exit1", put(g.file), will, source, g.prompted)
     ELSE Outcome("exit0", written, will \o text, source, g.prompted)

\* main, lines 480-484: Flags.outputWriter("") on the output path
mainWrite(f, fsys, out, source, rendered, text) ==
  IF out.fatal THEN Outcome("exit1", fsys, << >>, source, FALSE)
  ELSE mainExecute(f, fsys, out.path, source, rendered,
                   IF out.path = Empty THEN Gate("stdout", "nil", Absent, {}, FALSE)
                   ELSE promptAndCreateOutputFile(f, fsys, out.path, text))

\* Flags.getOutputPathForNonScan
getOutputPathForNonScan(f, wd) ==
  IF f.out = Empty THEN convertOutputPath(f, wd, Empty) ELSE Path(f.out)

\* main, lines 473-506: a single-file run. Flags.inputReader("") is
\* standard input, or os.Open(*f.in)
mainSingle(f, fsys, wd, input) ==
  IF isStdin(f)
  THEN mainWrite(f, fsys, getOutputPathForNonScan(f, wd), "stdin",
                 Render(input.src), input.text)
  ELSE IF ~Readable(At(fsys, Opened(wd, f.in)))
  THEN \* "Failed to open for reading": log.Fatalf
       Outcome("exit1", fsys, << >>, "none", FALSE)
  ELSE mainWrite(f, fsys, getOutputPathForNonScan(f, wd), "file",
                 Render(At(fsys, Opened(wd, f.in)).data), input.text)

MainIn == <<"/", "w", "/", "a">> \o dotExtension

MainOut == <<"/", "w", "/", "o">>

MainPaths == {WorkDir, MainIn, TargetPath(<<"a">> \o dotExtension), MainOut}

InitMain ==
  /\ flags \in [scan : BOOLEAN, porcelain : {FALSE}, dryRun : BOOLEAN,
                interactive : BOOLEAN, readOnly : {FALSE},
                out : {Empty, MainOut}, in : {Empty, MainIn},
                origParent : {Empty}, newParent : {Empty}]
  /\ cwd = WorkDir
  /\ fs \in {[p \in MainPaths |->
                IF p = WorkDir THEN Directory("rw")
                ELSE IF p = MainIn THEN tm
                ELSE tg[p]] :
              tm \in {File(SrcHello, "rw"), File(SrcBroken, "rw"), Absent},
              tg \in [MainPaths \ {WorkDir, MainIn} ->
                        {Absent, File("Hello bob", "rw"), File("", "rw")}]}
  /\ stdin \in [src : {SrcHello, SrcBroken},
                text : {<<"y", "\n">>, <<"n", "\n">>}]
  /\ fs0 = fs
  /\ walk = << >>
  /\ idx = 1
  /\ pc = "main"
  /\ trace = << >>
  /\ stdout = << >>
  /\ ops = {}
  /\ run = 1
  /\ prev = << >>
  /\ scanned = Empty
  /\ mapped = NoPath
  /\ back = NoPath

Ran(r) ==
  /\ pc' = r.exit
  /\ fs' = r.fs
  /\ stdout' = r.out
  /\ trace' = <<[source |-> r.source, prompted |-> r.prompted]>>
  /\ UNCHANGED <<stdin, flags, cwd, fs0, walk, idx, ops, run, prev, scanned,
                 mapped, back>>

\* main, lines 473-506
MainSingle ==
  /\ pc = "main"
  /\ ~shouldScan(flags)
  /\ Ran(mainSingle(flags, fs, cwd, stdin))

\* main, lines 471-472
MainScan ==
  /\ pc = "main"
  /\ shouldScan(flags)
  /\ pc' = "scan"
  /\ walk' = WalkOf(fs, cwd)
  /\ UNCHANGED <<stdin, flags, cwd, fs, fs0, idx, trace, stdout, ops, run,
                 prev, scanned, mapped, back>>

NextMain == MainSingle \/ MainScan \/ ScanFile \/ ScanDone

SpecMain == InitMain /\ [][NextMain]_vars

----------------------------------------------------------------------------
(* The scan: classification, dry run, prompt, report, failures. *)

\* the templates of the trace that the scan could open
Opens == {i \in 1..Len(trace) : trace[i].result # "openfail"}

\* the outcome of rendering the template of an entry
RenderOf(e) == Render(e.tmpl.data)

\* the classification by the bytes alone: FAIL when the rendering fails,
\* CREATE when no output can be read, KEEP when the output that is there
\* equals the rendered bytes byte for byte, MODIFY otherwise
ByBytes(rendering, target) ==
  IF rendering.err THEN "FAIL"
  ELSE IF ~Readable(target) THEN "CREATE"
  ELSE IF target.data = rendering.data THEN "KEEP"
  ELSE "MODIFY"

C3_DryRunTouchesNothing ==
  shouldDryRun(flags) =>
    /\ fs = fs0
    /\ ops = {}
    /\ \A i \in Opens :
         trace[i].decision =
           Classify(executeTemplate(At(fs0, trace[i].src)),
                    getExistingOutputFileContents(fs0, trace[i].dst))

\* the answers that are y or yes in some letter case, with white space
\* around them
Affirmative == {<<"y", "\n">>, <<" ", "Y", "e", "S", " ", "\n">>}

\* an interactive scan that is not a dry run meets an output that exists,
\* can be read and differs from what the template renders
Overwrites(e) ==
  /\ flags.interactive
  /\ ~shouldDryRun(flags)
  /\ e.result # "openfail"
  /\ Readable(e.pre)
  /\ ~RenderOf(e).err
  /\ RenderOf(e).data # e.pre.data

\* the file of a declined overwrite is as it was, and the scan goes on
Declined(e) ==
  /\ e.result = "declined"
  /\ e.mode = "MODIFY"
  /\ e.post = e.pre
  /\ e.ops = {}
  /\ ~e.copyFailed

\* the file of an accepted overwrite has the rendered bytes, unless the
\* output file could not be created or written
Accepted(e) ==
  \/ e.result = "createfail"
  \/ /\ e.result = "reported"
     /\ e.copyFailed \/ e.post.data = RenderOf(e).data
     /\ <<"create", e.dst>> \in e.ops

\* C4: in an interactive scan the user is asked before an existing output
\* that differs is overwritten; y or yes (any letter case, white space
\* ignored) overwrites it, any other answer leaves it as it was and the
\* scan goes on with the next file
C4_AskedBeforeOverwrite ==
  /\ (\E i \in 1..Len(trace) : trace[i].prompted) => pc \in {"scan", "exit0"}
  /\ \A i \in 1..Len(trace) :
       /\ trace[i].prompted => flags.interactive /\ Exists(trace[i].pre)
       /\ Overwrites(trace[i]) =>
            /\ trace[i].decision = "MODIFY"
            /\ trace[i].prompted
            /\ trace[i].answer \in Answers
            /\ IF trace[i].answer \in Affirmative
               THEN Accepted(trace[i]) ELSE Declined(trace[i])
            /\ idx > i

\* an overwrite was accepted with a yes in mixed case, another was declined
C4_Witness ==
  /\ \E i \in 1..Len(trace) :
       /\ Overwrites(trace[i])
       /\ trace[i].answer = <<" ", "Y", "e", "S", " ", "\n">>
       /\ trace[i].post.data = RenderOf(trace[i]).data
  /\ \E i \in 1..Len(trace) :
       /\ Overwrites(trace[i])
       /\ trace[i].answer \notin Affirmative
       /\ trace[i].post = trace[i].pre

\* the status line of an entry
LineOf(e) == [mode |-> e.mode, src |-> e.src, dst |-> e.dst]

LinesOf(es) == [i \in 1..Len(es) |-> LineOf(es[i])]

WasOpened(e) == e.result # "openfail"

WasReported(e) == e.result \notin {"openfail", "declined", "createfail"}

\* the trace follows the order of the walk
InWalkOrder == \A i \in 1..Len(trace) : trace[i].src = walk[i]

\* C8 as stated: one status line for every template file the scan
\* processed, whatever its outcome, in the order of the walk
C8_OneLinePerFile ==
  /\ InWalkOrder
  /\ stdout = LinesOf(SelectSeq(trace, WasOpened))

\* C8: one status line, in the order of the walk, for every template file
\* the scan processed, except that a declined overwrite and an output file
\* that could not be created are skipped without a line
C8_OneLinePerReportedFile ==
  /\ InWalkOrder
  /\ stdout = LinesOf(SelectSeq(trace, WasReported))
  /\ \A i \in 1..Len(trace) :
       trace[i].result = "declined" =>
         trace[i].prompted /\ trace[i].answer \notin Affirmative

\* a scan of two templates reported one and skipped the other one quietly
C8_Witness ==
  /\ Len(trace) = 2
  /\ Len(stdout) = 1
  /\ \E i \in 1..2 : trace[i].result \in {"declined", "createfail"}

\* the entry met a failure of its own: its template could not be opened
\* or rendered, its output could not be created or written
Failing(e) ==
  \/ e.result \in {"openfail", "createfail"}
  \/ e.decision = "FAIL"
  \/ e.copyFailed

RECURSIVE Replay(_, _)
\* the file system after the entries es, had the failing ones been absent
Replay(fsys, es) ==
  IF es = << >> THEN fsys
  ELSE Replay(IF Failing(Head(es)) \/ Head(es).dst \notin DOMAIN fsys
              THEN fsys
              ELSE [fsys EXCEPT ![Head(es).dst] = Head(es).post],
              Tail(es))

\* the file system the i-th template would have met without the failures
\* before it
Unfailed(i) == Replay(fs0, SubSeq(trace, 1, i - 1))

\* C9: a failure on one template file never ends the scan and never changes
\* how another template file of the scan is classified
C9_FailuresStayInTheirFile ==
  /\ (\E i \in 1..Len(trace) : Failing(trace[i])) => pc \in {"scan", "exit0"}
  /\ \A i \in Opens :
       trace[i].decision =
         Classify(executeTemplate(At(Unfailed(i), trace[i].src)),
                  getExistingOutputFileContents(Unfailed(i), trace[i].dst))

\* no output of the run before could not be created or written
AllWritten(es) ==
  \A i \in 1..Len(es) : es[i].result # "createfail" /\ ~es[i].copyFailed

Ended == pc \in {"exit0", "exit1", "panic"}

\* C10: -scan is ignored when -in or -out is given: the run is the
\* single-file run of the same command line without -scan
C10_ScanIgnoredWithInOrOut ==
  (Ended /\ flags.scan /\ (flags.in # Empty \/ flags.out # Empty)) =>
    /\ pc = mainSingle([flags EXCEPT !.scan = FALSE], fs0, cwd, stdin).exit
    /\ fs = mainSingle([flags EXCEPT !.scan = FALSE], fs0, cwd, stdin).fs
    /\ stdout = mainSingle([flags EXCEPT !.scan = FALSE], fs0, cwd, stdin).out

----------------------------------------------------------------------------
(* The walk of a tree with sub-directories that cannot be read. *)

\* the names filepath.Walk may meet in the working directory: a
\* sub-directory, the directory scan skips, a template
SubDir == Join(WorkDir, <<"d">>)

Templater == Join(WorkDir, <<".", "t", "e", "m", "p", "l", "a", "t", "e", "r">>)

WalkDirs == {SubDir, Templater}

WalkName == <<"a">> \o dotExtension

WalkPaths ==
  {WorkDir} \cup WalkDirs
  \cup {Join(d, WalkName) : d \in {WorkDir} \cup WalkDirs}
  \cup {Join(d, stripTempl(WalkName)) : d \in {WorkDir} \cup WalkDirs}

\* a directory: "rw" (0755), "none" (0000: its names cannot be read), "list"
\* (0644: its names can be read, its entries cannot be examined)
DirStates == {Directory("rw"), Directory("none"), Directory("list")}

\* the entries of the directory d
Entries(fsys, d) ==
  {p \in DOMAIN fsys : p # d /\ Dir(p) = d /\ Exists(fsys[p])}

RECURSIVE walkDir(_, _)
RECURSIVE walkEntries(_, _, _)
\* filepath.Walk on the directory d with the walk function of scan, lines
\* 64-70 and 146: the files scan goes on to process, in order. The
\* function returns SkipDir for .templater, and nil for the error of
\* reading the names of a directory, which ends that directory only.
walkDir(fsys, d) ==
  IF Base(d) = Base(Templater) THEN << >>
  ELSE IF At(fsys, d).perm = "none" THEN << >>
  ELSE walkEntries(fsys, d, SortPaths(Entries(fsys, d)))

\* filepath.Walk on the entries of d: os.Lstat of each, the walk function
\* on it
walkEntries(fsys, d, names) ==
  IF names = << >> THEN << >>
  ELSE IF At(fsys, d).perm = "list" THEN <<Fault>>
  ELSE (IF fsys[Head(names)].kind = "dir" THEN walkDir(fsys, Head(names))
        ELSE IF templRegExMatch(Base(Head(names))) THEN <<Head(names)>>
        ELSE << >>)
       \o walkEntries(fsys, d, Tail(names))

\* the trees of the walk: the working directory, at most one sub-directory,
\* a template in each, an output for each
WalkTrees ==
  UNION { { [p \in WalkPaths |->
               IF p = WorkDir THEN dw
               ELSE IF p \in WalkDirs THEN (IF p \in S THEN ds ELSE Absent)
               ELSE IF Dir(p) \notin S \cup {WorkDir} THEN Absent
               ELSE IF Base(p) = WalkName THEN tm[Dir(p)]
               ELSE tg[Dir(p)]] :
             dw \in DirStates, ds \in DirStates,
             tm \in [S \cup {WorkDir} -> {File(SrcHello, "rw"), Absent}],
             tg \in [S \cup {WorkDir} -> {File("Hello bob", "rw"), Absent}] } :
          S \in {X \in SUBSET WalkDirs : Cardinality(X) <= 1} }

InitWalk ==
  /\ flags \in {ScanFlags(d, FALSE, FALSE, <<Empty, Empty>>) : d \in BOOLEAN}
  /\ cwd = WorkDir
  /\ fs \in WalkTrees
  /\ fs0 = fs
  /\ walk = walkDir(fs, cwd)
  /\ idx = 1
  /\ pc = "scan"
  /\ trace = << >>
  /\ stdout = << >>
  /\ ops = {}
  /\ run = 1
  /\ prev = << >>
  /\ scanned = Empty
  /\ mapped = NoPath
  /\ back = NoPath
  /\ stdin = NoInput

\* scan, line 66: info is nil, the process panics
ScanPanic ==
  /\ pc = "scan"
  /\ idx <= Len(walk)
  /\ walk[idx] = Fault
  /\ pc' = "panic"
  /\ UNCHANGED <<stdin, flags, cwd, fs, fs0, walk, idx, trace, stdout, ops,
                 run, prev, scanned, mapped, back>>

NextWalk == ScanFile \/ ScanDone \/ ScanPanic

SpecWalk == InitWalk /\ [][NextWalk]_vars

\* the walk of the tree the scan started on met a directory it could not
\* read: the scan root, or a sub-directory that is not skipped
Unread(fsys, d) ==
  /\ At(fsys, d).kind = "dir"
  /\ At(fsys, d).perm = "none"
  /\ d = WorkDir \/ (d = SubDir /\ At(fsys, WorkDir).perm = "rw")

\* C11: an error of the directory walk itself (the scan root or a
\* sub-directory cannot be read) ends the run with a non-zero exit: the
\* scan never completes with exit code zero
C11_WalkErrorIsFatal ==
  (\E d \in {WorkDir, SubDir} : Unread(fs0, d)) => pc # "exit0"

\* the template of the entry was opened and its rendering failed
RenderFailed(e) == e.result # "openfail" /\ RenderOf(e).err

\* C12: when the rendering of a template fails in a scan, its target is
\* left as it was, whatever the flags: nothing is asked, removed, created,
\* truncated or changed for it, and a path that only templates that failed
\* map to is in the state the scan found it in
C12_FailedRenderLeavesTarget ==
  /\ \A i \in 1..Len(trace) :
       RenderFailed(trace[i]) =>
         /\ trace[i].decision = "FAIL"
         /\ trace[i].mode = "FAIL"
         /\ trace[i].post = trace[i].pre
         /\ trace[i].ops = {}
         /\ ~trace[i].prompted
  /\ \A i \in 1..Len(trace) : trace[i].ops # {} => ~RenderOf(trace[i]).err
  /\ \A p \in DOMAIN fs :
       (\A i \in 1..Len(trace) :
          trace[i].dst = p => trace[i].result = "openfail" \/ RenderFailed(trace[i]))
       => fs[p] = fs0[p]

\* a template failed to render next to a target that holds data, in a run
\* that writes and marks its outputs read-only
C12_Witness ==
  /\ ~shouldDryRun(flags)
  /\ flags.readOnly
  /\ \E i \in 1..Len(trace) :
       /\ RenderFailed(trace[i])
       /\ trace[i].pre = File("Hello bob", "rw")
       /\ fs[trace[i].dst] = File("Hello bob", "rw")

\* the output path dst of the template src is a file name of its own: not
\* the template, not an empty name (the directory), not a name the template
\* pattern matches
OutputApart(src, dst) ==
  /\ dst # src
  /\ stripTempl(Base(src)) # Empty
  /\ Base(dst) = stripTempl(Base(src))
  /\ ~templRegExMatch(Base(dst))

\* C13: a scan never writes over a template source: the output path of
\* every file the template pattern matches is a non-empty file name that is
\* neither its own path nor a path the pattern matches, and two templates
\* of one scan never have the same output path
C13_NeverOverATemplate ==
  /\ (Mapped /\ flags.scan /\ ~mapped.fatal /\ templRegExMatch(Base(scanned)))
       => OutputApart(scanned, mapped.path)
  /\ \A i \in 1..Len(trace) : OutputApart(trace[i].src, trace[i].dst)
  /\ \A i, j \in 1..Len(trace) : i # j => trace[i].dst # trace[j].dst

\* the directory d is the directory p or below it, component by component
Inside(p, d) ==
  \/ d = p
  \/ p = <<"/">> /\ IsAbs(d)
  \/ HasPrefix(d, p \o <<"/">>)

\* C14: with both prefixes given, every output path the mapping produces
\* has its directory inside the new prefix (resolved, as the code uses it):
\* the new prefix itself or a directory below it
C14_OutputInsideNewPrefix ==
  (/\ Mapped
   /\ flags.origParent # Empty
   /\ flags.newParent # Empty
   /\ ~mapped.fatal)
  => Inside(newParentAbs(flags, cwd), Dir(mapped.path))

====
